---- MODULE Spec2Model ----
(***************************************************************************)
(* Model of the SecureFeedback registration service: the two db modules    *)
(* (getPool with and without retry), the server start-up (startServer),    *)
(* and the POST / GET handlers of /api/users together with the usuarios    *)
(* table they act on.                                                      *)
(*                                                                         *)
(* Strings are sequences of one-character strings, so that trim, the       *)
(* regular expressions, normalizeEmail, the XSS filter and FORMAT are      *)
(* computed character by character.                                        *)
(***************************************************************************)
EXTENDS Integers, Sequences, FiniteSets, TLC

(* ----------------------------- bounds --------------------------------- *)
\* number of HTTP requests the model lets arrive
MaxRequests == 2
\* number of connection pools the driver can hand out in one run
MaxHandles == 2

(* ------------------------ program constants --------------------------- *)
maxRetries == 3
RetryDelayMs == 3000
NameMin == 2
NameMax == 100
EmailMax == 255
TelMin == 7
TelMax == 20
ErrUniqueConstraint == 2627
ErrUniqueIndex == 2601

\* the empty pool variable (let pool = null); handles are 1, 2, ...
Null == 0
\* the null the handler passes for an absent telefono or pais, stored as NULL
SqlNull == <<"NULL">>

(* ------------------------- character strings -------------------------- *)
RECURSIVE TrimLeft(_)
TrimLeft(s) ==
    IF s # <<>> /\ Head(s) = " " THEN TrimLeft(Tail(s)) ELSE s

RECURSIVE TrimRight(_)
TrimRight(s) ==
    IF s # <<>> /\ s[Len(s)] = " " THEN TrimRight(SubSeq(s, 1, Len(s) - 1)) ELSE s

\* String.prototype.trim / the validator's .trim() sanitizer
trim(s) == TrimRight(TrimLeft(s))

Digits == {"0", "1", "2", "3", "4", "5", "6", "7", "8", "9"}
LowerLetters == {"a", "b", "n", "o", "x"}
UpperLetters == {"A", "B", "N", "O", "X"}

\* the character class [a-zA-Z...\s] of the nombre / apellido / pais rules
NameChars == LowerLetters \cup UpperLetters \cup {" "}

\* the character class [\d\s\-\+\(\)] of the telefono rule
TelChars == Digits \cup {" ", "-", "+", "(", ")"}

\* /^[class]+$/ : one or more characters, all of the class
matches(s, class) == Len(s) >= 1 /\ \A k \in 1..Len(s) : s[k] \in class

isLength(s, min, max) == Len(s) >= min /\ Len(s) <= max

toLower(c) ==
    CASE c = "A" -> "a"
      [] c = "B" -> "b"
      [] c = "N" -> "n"
      [] c = "O" -> "o"
      [] c = "X" -> "x"
      [] OTHER -> c

\* positions of "@" in s
AtPositions(s) == {k \in 1..Len(s) : s[k] = "@"}

\* isEmail: local@domain, one "@", both parts non-empty and made of letters
\* and digits
isEmail(s) ==
    /\ Cardinality(AtPositions(s)) = 1
    /\ LET at == CHOOSE k \in AtPositions(s) : TRUE
       IN  /\ at > 1
           /\ at < Len(s)
           /\ \A k \in 1..Len(s) :
                k # at => s[k] \in LowerLetters \cup UpperLetters \cup Digits

\* normalizeEmail: lower-cases the address (all_lowercase defaults to true)
normalizeEmail(s) == [k \in 1..Len(s) |-> toLower(s[k])]

\* xssFilters.inHTMLData: every "<" becomes "&lt;"
RECURSIVE inHTMLData(_)
inHTMLData(s) ==
    IF s = <<>> THEN <<>>
    ELSE IF Head(s) = "<" THEN <<"&", "l", "t", ";">> \o inHTMLData(Tail(s))
    ELSE <<Head(s)>> \o inHTMLData(Tail(s))

(* --------------------- validacionRegistro (users.js) ------------------ *)
MsgNombreLen == "El nombre debe tener entre 2 y 100 caracteres"
MsgNombreChars == "El nombre solo puede contener letras y espacios"
MsgApellidoLen == "El apellido debe tener entre 2 y 100 caracteres"
MsgApellidoChars == "El apellido solo puede contener letras y espacios"
MsgEmail == "Ingrese un correo electronico valido"
MsgEmailLen == "El correo no puede exceder 255 caracteres"
MsgTelefono == "Ingrese un numero de telefono valido"
MsgPaisLen == "El pais no puede exceder 100 caracteres"
MsgPaisChars == "El pais solo puede contener letras y espacios"

\* one message when the check fails, none when it passes
MsgUnless(ok, msg) == IF ok THEN <<>> ELSE <<msg>>

\* the body after the sanitizers of the chains have run (trim, normalizeEmail;
\* an optional field that is falsy is left alone)
sanitizedBody(b) ==
    [nombre   |-> trim(b.nombre),
     apellido |-> trim(b.apellido),
     email    |-> IF isEmail(trim(b.email)) THEN normalizeEmail(trim(b.email))
                  ELSE trim(b.email),
     telefono |-> IF b.telefono = <<>> THEN <<>> ELSE trim(b.telefono),
     pais     |-> IF b.pais = <<>> THEN <<>> ELSE trim(b.pais)]

\* validationResult(req).array().map(e => e.msg): every failed validator of
\* every chain contributes its message, in the order of the chains
validationErrors(b) ==
    LET s == sanitizedBody(b)
    IN  MsgUnless(isLength(s.nombre, NameMin, NameMax), MsgNombreLen)
        \o MsgUnless(matches(s.nombre, NameChars), MsgNombreChars)
        \o MsgUnless(isLength(s.apellido, NameMin, NameMax), MsgApellidoLen)
        \o MsgUnless(matches(s.apellido, NameChars), MsgApellidoChars)
        \o MsgUnless(isEmail(trim(b.email)), MsgEmail)
        \o MsgUnless(isLength(s.email, 0, EmailMax), MsgEmailLen)
        \o (IF b.telefono = <<>> THEN <<>>
            ELSE MsgUnless(isLength(s.telefono, TelMin, TelMax)
                           /\ matches(s.telefono, TelChars), MsgTelefono))
        \o (IF b.pais = <<>> THEN <<>>
            ELSE MsgUnless(isLength(s.pais, 0, NameMax), MsgPaisLen)
                 \o MsgUnless(matches(s.pais, NameChars), MsgPaisChars))

\* the five values the handler passes to the INSERT (users.js 70-74)
insertParams(b) ==
    LET s == sanitizedBody(b)
    IN  [nombre   |-> inHTMLData(trim(s.nombre)),
         apellido |-> inHTMLData(trim(s.apellido)),
         email    |-> inHTMLData(trim(s.email)),
         telefono |-> IF s.telefono # <<>> THEN inHTMLData(trim(s.telefono)) ELSE SqlNull,
         pais     |-> IF s.pais # <<>> THEN inHTMLData(trim(s.pais)) ELSE SqlNull]

(* --------------------------- request bodies --------------------------- *)
Body(n, a, e, t, p) ==
    [nombre |-> n, apellido |-> a, email |-> e, telefono |-> t, pais |-> p]

Ana == <<"A", "n", "a">>
Bo == <<"B", "o">>
EmailAna == <<" ", "A", "@", "X">>
EmailBo == <<"b", "@", "x">>
Tel7 == <<"+", "1", " ", "2", "3", "-", "4">>

\* the submissions the model sends: two valid ones, with blanks to trim and
\* capitals in the address, and one that breaks the rules of nombre (a digit),
\* apellido (a symbol) and telefono (too short) while its email is valid
Bodies ==
    { Body(<<" ">> \o Ana, Bo, EmailAna, Tel7, <<"X">>),
      Body(Bo, Ana, EmailBo, <<>>, <<>>),
      Body(<<"A", "n", "4">>, <<"<", "b">>, EmailAna, <<"1", "2">>, <<>>) }

(* ------------------- server clock and FORMAT(...) --------------------- *)
Instant(d, m, y) == [year |-> y, month |-> m, day |-> d, hour |-> 9, minute |-> 5]

\* the readings GETDATE() gives in the model: moments that differ in the day,
\* in the month and in the year
Instants == {Instant(2, 1, 2024), Instant(1, 2, 2024), Instant(1, 1, 2025)}

InstantKey(t) == <<t.year, t.month, t.day, t.hour, t.minute>>

RECURSIVE TupleLess(_, _)
TupleLess(a, b) ==
    IF a = <<>> \/ b = <<>> THEN a = <<>> /\ b # <<>>
    ELSE IF Head(a) = Head(b) THEN TupleLess(Tail(a), Tail(b))
    ELSE Head(a) < Head(b)

\* t1 is an earlier moment than t2
Earlier(t1, t2) == TupleLess(InstantKey(t1), InstantKey(t2))

DigitChar == <<"0", "1", "2", "3", "4", "5", "6", "7", "8", "9">>
Pad2(n) == <<DigitChar[((n \div 10) % 10) + 1], DigitChar[(n % 10) + 1]>>
Pad4(n) == Pad2(n \div 100) \o Pad2(n % 100)

\* FORMAT(fecha_registro, 'dd/MM/yyyy HH:mm')
FORMAT(t) ==
    Pad2(t.day) \o <<"/">> \o Pad2(t.month) \o <<"/">> \o Pad4(t.year)
    \o <<" ">> \o Pad2(t.hour) \o <<":">> \o Pad2(t.minute)

\* code point of the characters FORMAT produces
CharCode(c) ==
    CASE c = " " -> 32
      [] c = "/" -> 47
      [] c = ":" -> 58
      [] OTHER -> 47 + (CHOOSE d \in 1..10 : DigitChar[d] = c)

\* string comparison of two formatted values
StrLess(a, b) ==
    TupleLess([k \in 1..Len(a) |-> CharCode(a[k])], [k \in 1..Len(b) |-> CharCode(b[k])])

(* ------------------------------- state -------------------------------- *)
VARIABLES
    dbModule,     \* which db module is deployed: "retry" or "db"
    nodeEnv,      \* process.env.NODE_ENV
    pool,         \* the module variable pool: Null or a handle
    connected,    \* the handles whose .connected is true
    handles,      \* number of pools sql.connect has created
    tableExists,  \* the usuarios table is present in the database
    usuarios,     \* the rows of the table
    identity,     \* last value the IDENTITY column handed out
    now,          \* last reading of the server clock
    listenCount,  \* number of app.listen calls
    startup,      \* where startServer stands
    pc,           \* where each async function stands
    i,            \* loop variable of the retrying getPool
    log,          \* the connects and delays of a getPool call that has not resolved
    ret,          \* what a getPool call resolved or rejected with, until its
                  \* caller takes it
    req,          \* the request each handler serves
    resp,         \* the response each handler sent
    touched       \* the handler of the request has called getPool

vars == <<dbModule, nodeEnv, pool, connected, handles, tableExists, usuarios,
          identity, now, listenCount, startup, pc, i, log, ret, req,
          resp, touched>>

\* startServer is process 0, the request handlers are 1, 2, ...
Server == 0
Requests == 1..MaxRequests
Procs == {Server} \cup Requests

EvConnect == [ev |-> "connect", ms |-> 0]
EvDelay == [ev |-> "delay", ms |-> RetryDelayMs]

NoResult == [h |-> Null, err |-> 0]
Resolved(h) == [h |-> h, err |-> 0]
\* the rejection of the k-th connection attempt of a call
Rejected(k) == [h |-> Null, err |-> k]

NoReq == [kind |-> "none", body |-> Body(<<>>, <<>>, <<>>, <<>>, <<>>)]
NoResp == [status |-> 0]

FirstInstant == Instant(2, 1, 2024)

Init ==
    /\ dbModule \in {"retry", "db"}
    /\ nodeEnv \in {"production", "development"}
    /\ pool = Null
    /\ connected = {}
    /\ handles = 0
    /\ tableExists \in BOOLEAN
    /\ usuarios = {}
    /\ identity = 0
    /\ now = FirstInstant
    /\ listenCount = 0
    /\ startup = "start"
    /\ pc = [p \in Procs |-> "idle"]
    /\ i = [p \in Procs |-> 0]
    /\ log = [p \in Procs |-> <<>>]
    /\ ret = [p \in Procs |-> NoResult]
    /\ req = [p \in Requests |-> NoReq]
    /\ resp = [p \in Requests |-> NoResp]
    /\ touched = [p \in Requests |-> FALSE]

(* ------------------------------ getPool ------------------------------- *)
\* getPool of the retrying module, up to its first await
getPool_retry(p) ==
    LET cached == IF pool # Null /\ pool \notin connected THEN Null ELSE pool
    IN  /\ i' = [i EXCEPT ![p] = 0]
        /\ pool' = cached
        /\ IF cached = Null
           THEN /\ log' = [log EXCEPT ![p] = <<EvConnect>>]
                /\ ret' = [ret EXCEPT ![p] = NoResult]
                /\ pc' = [pc EXCEPT ![p] = "connecting"]
           ELSE /\ log' = [log EXCEPT ![p] = <<>>]
                /\ ret' = [ret EXCEPT ![p] = Resolved(cached)]
                /\ pc' = [pc EXCEPT ![p] = "gotPool"]

\* getPool of src/db.js, up to its first await
getPool_db(p) ==
    /\ i' = [i EXCEPT ![p] = 0]
    /\ pool' = pool
    /\ IF pool = Null
       THEN /\ log' = [log EXCEPT ![p] = <<EvConnect>>]
            /\ ret' = [ret EXCEPT ![p] = NoResult]
            /\ pc' = [pc EXCEPT ![p] = "connecting"]
       ELSE /\ log' = [log EXCEPT ![p] = <<>>]
            /\ ret' = [ret EXCEPT ![p] = Resolved(pool)]
            /\ pc' = [pc EXCEPT ![p] = "gotPool"]

\* mutant of getPool: the cached handle is ignored and every call reconnects
getPool_reconnects(p) ==
    /\ i' = [i EXCEPT ![p] = 0]
    /\ pool' = Null
    /\ log' = [log EXCEPT ![p] = <<EvConnect>>]
    /\ ret' = [ret EXCEPT ![p] = NoResult]
    /\ pc' = [pc EXCEPT ![p] = "connecting"]

getPool(p) == IF dbModule = "retry" THEN getPool_retry(p) ELSE getPool_db(p)

\* sql.connect resolved: pool = await sql.connect(config); return pool
ConnectOk(p) ==
    /\ pc[p] = "connecting"
    /\ handles < MaxHandles
    /\ handles' = handles + 1
    /\ connected' = connected \cup {handles + 1}
    /\ pool' = handles + 1
    /\ ret' = [ret EXCEPT ![p] = Resolved(handles + 1)]
    /\ pc' = [pc EXCEPT ![p] = "gotPool"]
    /\ i' = [i EXCEPT ![p] = 0]
    /\ log' = [log EXCEPT ![p] = <<>>]
    /\ UNCHANGED <<dbModule, nodeEnv, tableExists, usuarios, identity, now,
                   listenCount, startup, req, resp, touched>>

\* mutant of catch_retry: the catch block does not reset the pool variable
catch_retry_keepsPool(p) ==
    /\ pool' = pool
    /\ IF i[p] < maxRetries - 1
       THEN /\ log' = [log EXCEPT ![p] = Append(@, EvDelay)]
            /\ pc' = [pc EXCEPT ![p] = "waiting"]
            /\ UNCHANGED <<ret, i>>
       ELSE /\ ret' = [ret EXCEPT ![p] = Rejected(i[p] + 1)]
            /\ pc' = [pc EXCEPT ![p] = "threw"]
            /\ i' = [i EXCEPT ![p] = 0]
            /\ UNCHANGED log

\* the catch block of the retrying getPool
catch_retry(p) ==
    /\ pool' = Null
    /\ IF i[p] < maxRetries - 1
       THEN /\ log' = [log EXCEPT ![p] = Append(@, EvDelay)]
            /\ pc' = [pc EXCEPT ![p] = "waiting"]
            /\ UNCHANGED <<ret, i>>
       ELSE /\ ret' = [ret EXCEPT ![p] = Rejected(i[p] + 1)]
            /\ pc' = [pc EXCEPT ![p] = "threw"]
            /\ i' = [i EXCEPT ![p] = 0]
            /\ UNCHANGED log

\* src/db.js has no catch: the rejection of sql.connect leaves getPool
catch_db(p) ==
    /\ pool' = pool
    /\ ret' = [ret EXCEPT ![p] = Rejected(1)]
    /\ pc' = [pc EXCEPT ![p] = "threw"]
    /\ UNCHANGED <<log, i>>

\* sql.connect rejected
ConnectFail(p) ==
    /\ pc[p] = "connecting"
    /\ IF dbModule = "retry" THEN catch_retry(p) ELSE catch_db(p)
    /\ UNCHANGED <<dbModule, nodeEnv, connected, handles, tableExists, usuarios,
                   identity, now, listenCount, startup, req, resp,
                   touched>>

\* the 3000 ms timer fired: i++, the loop test, and the next sql.connect
TimerFire(p) ==
    /\ pc[p] = "waiting"
    /\ IF i[p] + 1 < maxRetries
       THEN /\ i' = [i EXCEPT ![p] = @ + 1]
            /\ log' = [log EXCEPT ![p] = Append(@, EvConnect)]
            /\ pc' = [pc EXCEPT ![p] = "connecting"]
            /\ UNCHANGED ret
       ELSE /\ i' = [i EXCEPT ![p] = 0]
            /\ ret' = [ret EXCEPT ![p] = Resolved(pool)]
            /\ pc' = [pc EXCEPT ![p] = "gotPool"]
            /\ log' = [log EXCEPT ![p] = <<>>]
    /\ UNCHANGED <<dbModule, nodeEnv, pool, connected, handles, tableExists,
                   usuarios, identity, now, listenCount, startup, req,
                   resp, touched>>

\* a handle the program still refers to: the cached one, or one a getPool call
\* has resolved with and its caller has not used yet
Referenced(h) == h = pool \/ \E p \in Procs : pc[p] = "gotPool" /\ ret[p].h = h

\* the connection behind a pool drops: its .connected becomes false (a drop of
\* a pool nothing refers to any more changes nothing the program can see)
Disconnect(h) ==
    /\ h \in connected
    /\ Referenced(h)
    /\ connected' = connected \ {h}
    /\ UNCHANGED <<dbModule, nodeEnv, pool, handles, tableExists, usuarios,
                   identity, now, listenCount, startup, pc, i, log, ret, req, resp, touched>>

(* ----------------------------- startServer ---------------------------- *)
\* the caller of getPool has taken its result: the call is over
Consume(p) ==
    /\ log' = [log EXCEPT ![p] = <<>>]
    /\ ret' = [ret EXCEPT ![p] = NoResult]

\* startServer() up to its first await: the first getPool()
StartServer ==
    /\ pc[Server] = "idle"
    /\ startup = "start"
    /\ getPool(Server)
    /\ startup' = "pool1"
    /\ UNCHANGED <<dbModule, nodeEnv, connected, handles, tableExists, usuarios,
                   identity, now, listenCount, req, resp, touched>>

\* the first getPool() resolved: const pool = await getPool()
StartServerSecondGetPool ==
    /\ pc[Server] = "gotPool"
    /\ startup = "pool1"
    /\ getPool(Server)
    /\ startup' = "pool2"
    /\ UNCHANGED <<dbModule, nodeEnv, connected, handles, tableExists, usuarios,
                   identity, now, listenCount, req, resp, touched>>

\* IF NOT EXISTS (...) CREATE TABLE usuarios (...), run on the handle the
\* second getPool() resolved with; the statement can fail
StartServerCreateTable ==
    /\ pc[Server] = "gotPool"
    /\ startup = "pool2"
    /\ \E dbOk \in BOOLEAN :
         LET success == dbOk /\ ret[Server].h \in connected
         IN  /\ tableExists' = (tableExists \/ success)
             /\ pc' = [pc EXCEPT ![Server] = IF success THEN "queried" ELSE "threw"]
    /\ startup' = "query"
    /\ Consume(Server)
    /\ UNCHANGED <<dbModule, nodeEnv, pool, connected, handles, usuarios,
                   identity, now, listenCount, i, req, resp, touched>>

\* the table statement completed: app.listen(PORT)
StartServerListen ==
    /\ pc[Server] = "queried"
    /\ listenCount' = listenCount + 1
    /\ startup' = "ok"
    /\ pc' = [pc EXCEPT ![Server] = "done"]
    /\ UNCHANGED <<dbModule, nodeEnv, pool, connected, handles, tableExists,
                   usuarios, identity, now, i, log, ret, req, resp,
                   touched>>

\* mutant of StartServerCatch: the catch block only logs the error
StartServerCatch_onlyLogs ==
    /\ pc[Server] = "threw"
    /\ startup' = "failed"
    /\ pc' = [pc EXCEPT ![Server] = "done"]
    /\ log' = [log EXCEPT ![Server] = <<>>]
    /\ ret' = [ret EXCEPT ![Server] = NoResult]
    /\ UNCHANGED <<dbModule, nodeEnv, pool, connected, handles, tableExists,
                   usuarios, identity, now, listenCount, i, req, resp, touched>>

\* the catch block of startServer: listen anyway in production
StartServerCatch ==
    /\ pc[Server] = "threw"
    /\ listenCount' = IF nodeEnv = "production" THEN listenCount + 1 ELSE listenCount
    /\ startup' = "failed"
    /\ pc' = [pc EXCEPT ![Server] = "done"]
    /\ Consume(Server)
    /\ UNCHANGED <<dbModule, nodeEnv, pool, connected, handles, tableExists,
                   usuarios, identity, now, i, req, resp, touched>>

(* ------------------------------ requests ------------------------------ *)
\* a request reaches a handler only once the listener is up; requests are
\* numbered in the order they arrive
Arrives(r) ==
    /\ listenCount >= 1
    /\ pc[r] = "idle"
    /\ r = 1 \/ pc[r - 1] # "idle"

RespHealth == [status |-> 200, body |-> "OK"]

\* GET /health
Health(r) ==
    /\ Arrives(r)
    /\ req' = [req EXCEPT ![r] = [kind |-> "HEALTH", body |-> NoReq.body]]
    /\ resp' = [resp EXCEPT ![r] = RespHealth]
    /\ pc' = [pc EXCEPT ![r] = "done"]
    /\ UNCHANGED <<dbModule, nodeEnv, pool, connected, handles, tableExists,
                   usuarios, identity, now, listenCount, startup, i, log, ret,
                   touched>>

(* ---------------------------- POST /api/users ------------------------- *)
\* mutant of hasErrors: the handler does not look at the validation result
hasErrors_ignored(b) == FALSE

\* !errors.isEmpty()
hasErrors(b) == validationErrors(b) # <<>>

Resp400(b) ==
    [status |-> 400, success |-> FALSE, message |-> "Error de validacion",
     errors |-> validationErrors(b)]
Resp409 ==
    [status |-> 409, success |-> FALSE,
     message |-> "El correo electronico ya esta registrado"]
\* logged is what console.error printed for the request, the response itself
\* carries no detail
Resp500Post(error) ==
    [status |-> 500, success |-> FALSE,
     message |-> "Error interno del servidor. Intente nuevamente.",
     logged |-> error.code]
Resp500Get ==
    [status |-> 500, success |-> FALSE, message |-> "Error interno del servidor"]
Resp201(id, v) ==
    [status |-> 201, success |-> TRUE, message |-> "Usuario registrado exitosamente",
     data |-> [id |-> id, nombre |-> v.nombre, apellido |-> v.apellido,
               email |-> v.email]]

\* the errors the driver raises: a failed sql.connect, a statement on a closed
\* pool, a statement the server did not complete, and a statement the server
\* rejected with an error number (number is 0 when the error carries none)
ErrConnect == [code |-> "ELOGIN", number |-> 0]
ErrClosed == [code |-> "ECONNCLOSED", number |-> 0]
ErrTimeout == [code |-> "ETIMEOUT", number |-> 0]
ErrRequest(number) == [code |-> "EREQUEST", number |-> number]

\* the catch block of the POST handler
postCatch(error) ==
    IF error.number = ErrUniqueConstraint \/ error.number = ErrUniqueIndex
    THEN Resp409
    ELSE Resp500Post(error)

\* the handler up to its first await: validation, sanitization, getPool()
PostStart(r, b) ==
    /\ Arrives(r)
    /\ req' = [req EXCEPT ![r] = [kind |-> "POST", body |-> b]]
    /\ IF hasErrors(b)
       THEN /\ resp' = [resp EXCEPT ![r] = Resp400(b)]
            /\ pc' = [pc EXCEPT ![r] = "done"]
            /\ UNCHANGED <<pool, i, log, ret, touched>>
       ELSE /\ getPool(r)
            /\ touched' = [touched EXCEPT ![r] = TRUE]
            /\ UNCHANGED resp
    /\ UNCHANGED <<dbModule, nodeEnv, connected, handles, tableExists, usuarios,
                   identity, now, listenCount, startup>>

\* the row INSERT INTO usuarios (...) VALUES (...) stores, with the column
\* defaults filled in
NewRow(id, v, t) ==
    [id |-> id, nombre |-> v.nombre, apellido |-> v.apellido, email |-> v.email,
     telefono |-> v.telefono, pais |-> v.pais, fecha_registro |-> t]

\* mutant of EmailTaken: the email column has no UNIQUE constraint
EmailTaken_unconstrained(e) == FALSE

\* the UNIQUE constraint on email
EmailTaken(e) == \E u \in usuarios : u.email = e

\* mutant of SCOPE_IDENTITY: the value read is the one before the INSERT
SCOPE_IDENTITY_previous(inserted) == inserted - 1

\* SELECT SCOPE_IDENTITY() AS id, after the INSERT took this IDENTITY value
SCOPE_IDENTITY(inserted) == inserted

\* getPool() resolved: the INSERT runs on the handle and the response is sent.
\* The statement fails on a closed pool, on a missing table, on a duplicate
\* email (error 2627, the IDENTITY value is spent all the same) and for
\* reasons of the server's own (dbOk = FALSE).
PostInsert(r) ==
    /\ pc[r] = "gotPool"
    /\ req[r].kind = "POST"
    /\ pc' = [pc EXCEPT ![r] = "done"]
    /\ \E dbOk \in BOOLEAN, t \in Instants :
         LET v == insertParams(req[r].body)
         IN  /\ ~Earlier(t, now)
             /\ IF ~dbOk \/ ret[r].h \notin connected
                THEN /\ t = now
                     /\ resp' = [resp EXCEPT ![r] = postCatch(
                                   IF ret[r].h \notin connected THEN ErrClosed
                                   ELSE ErrTimeout)]
                     /\ UNCHANGED <<usuarios, identity, now>>
                ELSE IF ~tableExists
                THEN /\ t = now
                     /\ resp' = [resp EXCEPT ![r] = postCatch(ErrRequest(208))]
                     /\ UNCHANGED <<usuarios, identity, now>>
                ELSE IF EmailTaken(v.email)
                THEN /\ t = now
                     /\ resp' = [resp EXCEPT ![r] =
                                   postCatch(ErrRequest(ErrUniqueConstraint))]
                     /\ identity' = identity + 1
                     /\ UNCHANGED <<usuarios, now>>
                ELSE /\ usuarios' = usuarios \cup {NewRow(identity + 1, v, t)}
                     /\ identity' = identity + 1
                     /\ now' = t
                     /\ resp' = [resp EXCEPT ![r] =
                                   Resp201(SCOPE_IDENTITY(identity + 1), v)]
    /\ Consume(r)
    /\ UNCHANGED <<dbModule, nodeEnv, pool, connected, handles, tableExists,
                   listenCount, startup, i, req, touched>>

\* getPool() rejected: the catch block gets the connection error
PostCatch(r) ==
    /\ pc[r] = "threw"
    /\ req[r].kind = "POST"
    /\ resp' = [resp EXCEPT ![r] = postCatch(ErrConnect)]
    /\ pc' = [pc EXCEPT ![r] = "done"]
    /\ Consume(r)
    /\ UNCHANGED <<dbModule, nodeEnv, pool, connected, handles, tableExists,
                   usuarios, identity, now, listenCount, startup, i, req,
                   touched>>

(* ---------------------------- GET /api/users -------------------------- *)
\* the handler up to its first await: getPool()
GetStart(r) ==
    /\ Arrives(r)
    /\ req' = [req EXCEPT ![r] = [kind |-> "GET", body |-> NoReq.body]]
    /\ getPool(r)
    /\ touched' = [touched EXCEPT ![r] = TRUE]
    /\ UNCHANGED <<dbModule, nodeEnv, connected, handles, tableExists, usuarios,
                   identity, now, listenCount, startup, resp>>

\* the SELECT list: fecha_registro is the alias of FORMAT(fecha_registro, ...)
selectRow(u) ==
    [id |-> u.id, nombre |-> u.nombre, apellido |-> u.apellido, email |-> u.email,
     telefono |-> u.telefono, pais |-> u.pais,
     fecha_registro |-> FORMAT(u.fecha_registro)]

\* ORDER BY fecha_registro DESC: the name is the alias of the SELECT list, so
\* the key of a result row is its formatted string
orderKey(row) == row.fecha_registro

\* out is in descending order of the key
Descending(out) ==
    \A j, k \in 1..Len(out) : j < k => ~StrLess(orderKey(out[j]), orderKey(out[k]))

\* the record sets the SELECT can return: every row once, in key order (rows
\* with equal keys in any order)
recordset ==
    LET rows == {selectRow(u) : u \in usuarios}
        n == Cardinality(rows)
    IN  {out \in [1..n -> rows] :
            /\ \A j, k \in 1..n : j # k => out[j] # out[k]
            /\ Descending(out)}

Resp200(out) == [status |-> 200, success |-> TRUE, count |-> Len(out), data |-> out]

\* getPool() resolved: the SELECT runs on the handle and the response is sent
GetQuery(r) ==
    /\ pc[r] = "gotPool"
    /\ req[r].kind = "GET"
    /\ pc' = [pc EXCEPT ![r] = "done"]
    /\ \E dbOk \in BOOLEAN :
         IF dbOk /\ ret[r].h \in connected /\ tableExists
         THEN \E out \in recordset : resp' = [resp EXCEPT ![r] = Resp200(out)]
         ELSE resp' = [resp EXCEPT ![r] = Resp500Get]
    /\ Consume(r)
    /\ UNCHANGED <<dbModule, nodeEnv, pool, connected, handles, tableExists,
                   usuarios, identity, now, listenCount, startup, i, req,
                   touched>>

\* getPool() rejected: the catch block
GetCatch(r) ==
    /\ pc[r] = "threw"
    /\ req[r].kind = "GET"
    /\ resp' = [resp EXCEPT ![r] = Resp500Get]
    /\ pc' = [pc EXCEPT ![r] = "done"]
    /\ Consume(r)
    /\ UNCHANGED <<dbModule, nodeEnv, pool, connected, handles, tableExists,
                   usuarios, identity, now, listenCount, startup, i, req,
                   touched>>

(* --------------------------- specification ---------------------------- *)
Next ==
    \/ StartServer
    \/ StartServerSecondGetPool
    \/ StartServerCreateTable
    \/ StartServerListen
    \/ StartServerCatch
    \/ \E p \in Procs : ConnectOk(p)
    \/ \E p \in Procs : ConnectFail(p)
    \/ \E p \in Procs : TimerFire(p)
    \/ \E h \in 1..MaxHandles : Disconnect(h)
    \/ \E r \in Requests : Health(r)
    \/ \E r \in Requests, b \in Bodies : PostStart(r, b)
    \/ \E r \in Requests : PostInsert(r)
    \/ \E r \in Requests : PostCatch(r)
    \/ \E r \in Requests : GetStart(r)
    \/ \E r \in Requests : GetQuery(r)
    \/ \E r \in Requests : GetCatch(r)

Spec == Init /\ [][Next]_vars

\* the row an earlier run of the server stored: the table outlives the process
SeedRow == NewRow(1, insertParams(Body(Bo, Ana, EmailBo, <<>>, <<>>)), FirstInstant)

\* a start over the database an earlier run has left: the table exists and
\* holds the row registered then
InitRestart ==
    /\ dbModule \in {"retry", "db"}
    /\ nodeEnv \in {"production", "development"}
    /\ pool = Null
    /\ connected = {}
    /\ handles = 0
    /\ tableExists = TRUE
    /\ usuarios = {SeedRow}
    /\ identity = SeedRow.id
    /\ now = SeedRow.fecha_registro
    /\ listenCount = 0
    /\ startup = "start"
    /\ pc = [p \in Procs |-> "idle"]
    /\ i = [p \in Procs |-> 0]
    /\ log = [p \in Procs |-> <<>>]
    /\ ret = [p \in Procs |-> NoResult]
    /\ req = [p \in Requests |-> NoReq]
    /\ resp = [p \in Requests |-> NoResp]
    /\ touched = [p \in Requests |-> FALSE]

SpecRestart == InitRestart /\ [][Next]_vars

(* ------------------------- steps of a getPool call -------------------- *)
\* the step in which process p calls getPool
Calls(p) ==
    IF p = Server
    THEN \/ startup = "start" /\ startup' = "pool1"
         \/ startup = "pool1" /\ startup' = "pool2"
    ELSE pc[p] = "idle" /\ touched'[p]

\* the step in which a connection attempt of p's getPool call fails
AttemptFails(p) == pc[p] = "connecting" /\ pc'[p] \in {"waiting", "threw"}

\* the step in which p's getPool call resolves, and the step in which it rejects
Resolves(p) == pc'[p] = "gotPool" /\ (pc[p] # "gotPool" \/ Calls(p))
Rejects(p) == pc[p] = "connecting" /\ pc'[p] = "threw"

\* the cached handle is stale: it exists and reports connected = false
Stale == pool # Null /\ pool \notin connected
\* the cached handle exists and reports connected = true
Cached == pool # Null /\ pool \in connected

(* ------------------------------ claims -------------------------------- *)

\* C1: a getPool call made while the cached handle exists but is disconnected
\* discards the cached handle and starts a connection attempt, in both db
\* modules; it does not resolve with the stale handle.
C1_StaleHandleDiscarded ==
    [][\A p \in Procs :
         Calls(p) /\ Stale =>
            /\ pool' = Null
            /\ pc'[p] = "connecting"
            /\ log'[p] = <<EvConnect>>]_vars

\* C1, for the retrying module alone: there the stale handle is discarded.
C1_RetryingModuleDiscards ==
    [][\A p \in Procs :
         dbModule = "retry" /\ Calls(p) /\ Stale =>
            /\ pool' = Null
            /\ pc'[p] = "connecting"
            /\ log'[p] = <<EvConnect>>]_vars

\* C2: a getPool call that rejects has made exactly 3 connection attempts, with
\* the 3000 ms delay after the first and after the second and none after the
\* third, and rejects with the error of the third attempt.
C2_ThreeAttemptsThenThrow ==
    \A p \in Procs :
        pc[p] = "threw" /\ ret[p].err # 0 =>
            /\ log[p] = <<EvConnect, EvDelay, EvConnect, EvDelay, EvConnect>>
            /\ ret[p] = Rejected(3)

\* C2, for the retrying module alone.
C2_RetryingModuleThreeAttempts ==
    \A p \in Procs :
        dbModule = "retry" /\ pc[p] = "threw" /\ ret[p].err # 0 =>
            /\ log[p] = <<EvConnect, EvDelay, EvConnect, EvDelay, EvConnect>>
            /\ ret[p] = Rejected(maxRetries)

C4_FailedAttemptKeepsCachedHandle ==
    [][\A p \in Procs : AttemptFails(p) /\ Cached => pool' = pool]_vars

\* C4, for src/db.js alone: there a failed attempt leaves the cached handle.
C4_DbModuleKeepsCachedHandle ==
    [][\A p \in Procs :
         dbModule = "db" /\ AttemptFails(p) /\ Cached => pool' = pool]_vars

Finishes(r) == pc[r] # "done" /\ pc'[r] = "done"

\* a stored row has this email
StoredEmail(e) == \E u \in usuarios : u.email = e

\* the email a POST body is registered under
RegisteredEmail(b) == insertParams(b).email

\* C5: a registration whose email equals the email of a stored row is answered
\* 409 with the duplicate-email message and leaves the table as it is.
C5_DuplicateAlways409 ==
    [][\A r \in Requests :
         /\ Finishes(r)
         /\ req'[r].kind = "POST"
         /\ StoredEmail(RegisteredEmail(req'[r].body))
         => /\ resp'[r] = Resp409
            /\ usuarios' = usuarios]_vars

\* C5 as amended: a registration whose email equals the email of a stored row
\* leaves the table as it is; it is answered 400 when it fails validation, and
\* otherwise 409 with the duplicate-email message, unless the pool could not be
\* obtained or the statement failed for a reason of the connection or server,
\* when it is answered 500. No two stored rows share an email.
C5_DuplicateNeverStored ==
    /\ [][\A r \in Requests :
            /\ Finishes(r)
            /\ req'[r].kind = "POST"
            /\ StoredEmail(RegisteredEmail(req'[r].body))
            => /\ usuarios' = usuarios
               /\ IF validationErrors(req'[r].body) # <<>>
                  THEN resp'[r].status = 400
                  ELSE \/ resp'[r] = Resp409
                       \/ /\ resp'[r].status = 500
                          /\ resp'[r].logged \in {"ELOGIN", "ECONNCLOSED", "ETIMEOUT"}]_vars
    /\ [](\A u, w \in usuarios : u.email = w.email => u = w)

\* C5 witness: a row is stored and a request was answered 409.
C5_Witness ==
    \E r \in Requests :
        /\ resp[r] = Resp409
        /\ StoredEmail(RegisteredEmail(req[r].body))

\* the registration time of the stored row with this id
RegisteredAt(id) == (CHOOSE u \in usuarios : u.id = id).fecha_registro

\* C6: in the data of a GET /api/users response no row comes before a row that
\* was registered later.
C6_MostRecentFirst ==
    \A r \in Requests :
        req[r].kind = "GET" /\ resp[r].status = 200 =>
            \A j, k \in 1..Len(resp[r].data) :
                j < k => ~Earlier(RegisteredAt(resp[r].data[j].id),
                                  RegisteredAt(resp[r].data[k].id))

\* C6, what the query does give: the rows in descending order of the
\* formatted dd/MM/yyyy HH:mm string.
C6_DescendingByFormattedString ==
    \A r \in Requests :
        req[r].kind = "GET" /\ resp[r].status = 200 =>
            \A j, k \in 1..Len(resp[r].data) :
                j < k => ~StrLess(FORMAT(RegisteredAt(resp[r].data[j].id)),
                                  FORMAT(RegisteredAt(resp[r].data[k].id)))

\* C7: app.listen is called at most once; after a failed start-up in
\* production and after a successful start-up it has been called once; on a
\* successful start-up it is called only once the table statement has
\* completed; and every GET /health is answered 200.
C7_ListenerStartedOnce ==
    /\ [](listenCount <= 1)
    /\ [](startup = "failed" /\ nodeEnv = "production" => listenCount = 1)
    /\ [](startup = "ok" => listenCount = 1 /\ tableExists)
    /\ [][startup' = "ok" /\ startup # "ok" =>
            /\ startup = "query"
            /\ pc[Server] = "queried"
            /\ listenCount' = listenCount + 1]_vars
    /\ [](\A r \in Requests : req[r].kind = "HEALTH" => resp[r].status = 200)

\* C7 witness: production, the start-up failed, the listener is up and a
\* GET /health was answered 200.
C7_Witness ==
    \E r \in Requests :
        /\ nodeEnv = "production"
        /\ startup = "failed"
        /\ listenCount = 1
        /\ req[r].kind = "HEALTH"
        /\ resp[r].status = 200

\* the row of a record set with this id carries these fields
Lists(data, d) ==
    \E k \in 1..Len(data) :
        /\ data[k].id = d.id
        /\ data[k].nombre = d.nombre
        /\ data[k].apellido = d.apellido
        /\ data[k].email = d.email

\* C8: the id of a 201 response is the id of exactly one stored row, which
\* carries the echoed nombre, apellido and email; and a GET /api/users
\* answered 200 after it lists that row under that id.
C8_CreatedRowListed ==
    /\ [](\A r \in Requests :
            req[r].kind = "POST" /\ resp[r].status = 201 =>
               /\ Cardinality({u \in usuarios : u.id = resp[r].data.id}) = 1
               /\ \A u \in usuarios :
                    u.id = resp[r].data.id =>
                       /\ u.nombre = resp[r].data.nombre
                       /\ u.apellido = resp[r].data.apellido
                       /\ u.email = resp[r].data.email)
    /\ [][\A g \in Requests :
            Finishes(g) /\ req'[g].kind = "GET" /\ resp'[g].status = 200 =>
               \A r \in Requests :
                  req[r].kind = "POST" /\ resp[r].status = 201 =>
                     Lists(resp'[g].data, resp[r].data)]_vars

\* C8 witness: a 201 response and a GET response that lists its row.
C8_Witness ==
    \E r, g \in Requests :
        /\ req[r].kind = "POST"
        /\ resp[r].status = 201
        /\ req[g].kind = "GET"
        /\ resp[g].status = 200
        /\ Lists(resp[g].data, resp[r].data)

\* C9: a POST whose body fails a validation rule is answered 400 with a
\* non-empty list of messages in the step it arrives in, without a getPool
\* call; a handler that has not called getPool makes no connection attempt;
\* and the step of a 400 response changes neither the pool nor the table.
C9_InvalidRejectedBeforeDatabase ==
    /\ [](\A r \in Requests :
            req[r].kind = "POST" /\ validationErrors(req[r].body) # <<>> =>
               /\ pc[r] = "done"
               /\ resp[r].status = 400
               /\ resp[r].errors # <<>>
               /\ ~touched[r])
    /\ [](\A r \in Requests :
            ~touched[r] => pc[r] \in {"idle", "done"} /\ log[r] = <<>> /\ ret[r] = NoResult)
    /\ [][\A r \in Requests :
            Finishes(r) /\ resp'[r].status = 400 =>
               UNCHANGED <<pool, connected, handles, usuarios, identity, log, ret>>]_vars

\* C9 witness: a 400 response that names the rule on the characters of
\* nombre, from a handler that never called getPool.
C9_Witness ==
    \E r \in Requests :
        /\ resp[r].status = 400
        /\ \E k \in 1..Len(resp[r].errors) : resp[r].errors[k] = MsgNombreChars
        /\ ~touched[r]

====
